---- MODULE Spec2Model ----
(***************************************************************************)
(* A model of the connection loop of src/src/main.rs and of the command    *)
(* handlers ECHO, SET and FLUSHDB (src/src/command), with the keyspace     *)
(* store, the session type and the AUTH and SELECT handlers following the  *)
(* design document where their code is not part of the sources at hand.   *)
(*                                                                         *)
(* Strings of the wire are sequences of one-character strings, so that     *)
(* case conversion, integer parsing and exact comparison are computed      *)
(* character by character as the Rust code computes them.                  *)
(***************************************************************************)
EXTENDS Integers, Sequences, FiniteSets, TLC

(***************************************************************************)
(* Bounds of the model.                                                    *)
(***************************************************************************)
\* connection threads spawned by the accept loop during one run
NumConns == 2
\* requests read by all connections together during one run
MaxReqs == 2
\* the clock runs from 0 to MaxNow milliseconds
MaxNow == 1
\* the `databases` option of the configuration
NumDatabases == 2

Conns == 1..NumConns
\* peer addresses (`stream.peer_addr().to_string()`), the session ids
Peers == {"10.0.0.1:5000", "10.0.0.2:5000"}
DbIndexes == 0..(NumDatabases - 1)

(***************************************************************************)
(* Characters and tokens.                                                  *)
(***************************************************************************)
LowerAlpha ==
  << "a","b","c","d","e","f","g","h","i","j","k","l","m",
     "n","o","p","q","r","s","t","u","v","w","x","y","z" >>

UpperAlpha ==
  << "A","B","C","D","E","F","G","H","I","J","K","L","M",
     "N","O","P","Q","R","S","T","U","V","W","X","Y","Z" >>

Digits == << "0","1","2","3","4","5","6","7","8","9" >>

\* char::to_uppercase on one character
UpperChar(c) ==
  IF \E i \in 1..26 : LowerAlpha[i] = c
    THEN UpperAlpha[CHOOSE i \in 1..26 : LowerAlpha[i] = c]
    ELSE c

\* str::to_uppercase
ToUppercase(tok) == [i \in 1..Len(tok) |-> UpperChar(tok[i])]

IsDigit(c) == \E i \in 1..10 : Digits[i] = c

DigitVal(c) == (CHOOSE i \in 1..10 : Digits[i] = c) - 1

(***************************************************************************)
(* i64.  A number is a sign and a magnitude; a magnitude is three limbs    *)
(* to the base 10^8, the lowest first, so that every value of an i64 and   *)
(* every product of one with 1000 is exact.                                *)
(***************************************************************************)
LimbBase == 10000 * 10000

Mag(l1, l2, l3) == << l1, l2, l3 >>

Num(neg, mag) == [neg |-> neg /\ mag # Mag(0, 0, 0), mag |-> mag]

\* a natural number below the limb base
NumOfNat(n) == Num(FALSE, Mag(n, 0, 0))

MagLess(a, b) ==
  \/ a[3] < b[3]
  \/ a[3] = b[3] /\ a[2] < b[2]
  \/ a[3] = b[3] /\ a[2] = b[2] /\ a[1] < b[1]

MagAdd(a, b) ==
  LET s1 == a[1] + b[1]
      s2 == a[2] + b[2] + (s1 \div LimbBase)
      s3 == a[3] + b[3] + (s2 \div LimbBase)
  IN Mag(s1 % LimbBase, s2 % LimbBase, s3)

\* a - b, for b not above a
MagSub(a, b) ==
  LET d1 == a[1] - b[1]
      w1 == IF d1 < 0 THEN 1 ELSE 0
      d2 == a[2] - b[2] - w1
      w2 == IF d2 < 0 THEN 1 ELSE 0
  IN Mag(d1 + w1 * LimbBase, d2 + w2 * LimbBase, a[3] - b[3] - w2)

MagTimes10(a) ==
  LET p1 == a[1] * 10
      p2 == a[2] * 10 + (p1 \div LimbBase)
      p3 == a[3] * 10 + (p2 \div LimbBase)
  IN Mag(p1 % LimbBase, p2 % LimbBase, p3)

MagTimes1000(a) == MagTimes10(MagTimes10(MagTimes10(a)))

\* i64::MAX = 9223372036854775807 and the magnitude of i64::MIN
I64MaxMag == Mag(54775807, 33720368, 922)

I64MinMag == Mag(54775808, 33720368, 922)

\* 2^64 = 18446744073709551616
TwoTo64 == Mag(9551616, 67440737, 1844)

\* whether the number is a value of i64
InI64(x) ==
  IF x.neg THEN ~MagLess(I64MinMag, x.mag) ELSE ~MagLess(I64MaxMag, x.mag)

\* x + y
NumAdd(x, y) ==
  IF x.neg = y.neg THEN Num(x.neg, MagAdd(x.mag, y.mag))
  ELSE IF MagLess(x.mag, y.mag) THEN Num(y.neg, MagSub(y.mag, x.mag))
  ELSE Num(x.neg, MagSub(x.mag, y.mag))

RECURSIVE Reduce(_, _)
\* x brought below m in magnitude by steps of m towards zero
Reduce(x, m) ==
  IF MagLess(x.mag, m) THEN x
  ELSE Reduce(Num(x.neg, MagSub(x.mag, m)), m)

\* the value of i64 congruent to x modulo 2^64, for x below 1000 * 2^64 in
\* magnitude
WrapI64(x) ==
  LET r == Reduce(Reduce(Reduce(x, MagTimes10(MagTimes10(TwoTo64))),
                         MagTimes10(TwoTo64)), TwoTo64)
  IN IF InI64(r) THEN r ELSE NumAdd(r, Num(~r.neg, TwoTo64))

RECURSIVE DigitsValue(_)
\* the number that at most eight decimal digits denote
DigitsValue(ds) ==
  IF Len(ds) = 0 THEN 0
  ELSE DigitsValue(SubSeq(ds, 1, Len(ds) - 1)) * 10 + DigitVal(ds[Len(ds)])

\* the k-th group of eight digits, counted from the right
DigitGroup(ds, k) ==
  SubSeq(ds, IF Len(ds) - 8 * k + 1 > 1 THEN Len(ds) - 8 * k + 1 ELSE 1,
         Len(ds) - 8 * (k - 1))

\* the magnitude that decimal digits denote; digits before the last 24
\* are beyond every value of i64 unless they are zeros
DigitsMag(ds) ==
  Mag(DigitsValue(DigitGroup(ds, 1)), DigitsValue(DigitGroup(ds, 2)),
      IF \E i \in 1..(Len(ds) - 24) : ds[i] # "0"
        THEN I64MinMag[3] + 1
        ELSE DigitsValue(DigitGroup(ds, 3)))

\* str::parse::<i64>: an optional sign, then one or more decimal digits
\* that denote a value of i64
ParseI64(tok) ==
  LET signed == Len(tok) > 0 /\ tok[1] \in {"+", "-"}
      ds == IF signed THEN SubSeq(tok, 2, Len(tok)) ELSE tok
      val == Num(signed /\ tok[1] = "-", DigitsMag(ds))
  IN IF Len(ds) = 0 \/ \E i \in 1..Len(ds) : ~IsDigit(ds[i])
       THEN [ok |-> FALSE, val |-> NumOfNat(0)]
       ELSE [ok |-> InI64(val), val |-> IF InI64(val) THEN val ELSE NumOfNat(0)]

\* ttl * 1000 on i64: the product when it is a value of i64; otherwise a
\* panic in a build with overflow checks, and the wrapped product in a
\* build without them
I64Times1000(x, overflow_checks) ==
  LET product == Num(x.neg, MagTimes1000(x.mag))
  IN IF InI64(product) THEN [ok |-> TRUE, val |-> product]
     ELSE IF overflow_checks THEN [ok |-> FALSE, val |-> NumOfNat(0)]
     ELSE [ok |-> TRUE, val |-> WrapI64(product)]

(***************************************************************************)
(* The command table of init_command_strategies: the registered names,    *)
(* each with the handler it is bound to.                                   *)
(***************************************************************************)
Name_echo == << "e", "c", "h", "o" >>

Name_keys == << "k", "e", "y", "s" >>

Name_auth == << "a", "u", "t", "h" >>

Name_select == << "s", "e", "l", "e", "c", "t" >>

Name_exists == << "e", "x", "i", "s", "t", "s" >>

Name_expire == << "e", "x", "p", "i", "r", "e" >>

Name_dbsize == << "d", "b", "s", "i", "z", "e" >>

Name_set == << "s", "e", "t" >>

Name_get == << "g", "e", "t" >>

Name_del == << "d", "e", "l" >>

Name_flushall == << "f", "l", "u", "s", "h", "a", "l", "l" >>

Name_flushdb == << "f", "l", "u", "s", "h", "d", "b" >>

Name_append == << "a", "p", "p", "e", "n", "d" >>

Name_rename == << "r", "e", "n", "a", "m", "e" >>

Name_move == << "m", "o", "v", "e" >>

Name_llen == << "l", "l", "e", "n" >>

Name_lpush == << "l", "p", "u", "s", "h" >>

Name_rpush == << "r", "p", "u", "s", "h" >>

Name_incr == << "i", "n", "c", "r" >>

Name_decr == << "d", "e", "c", "r" >>

\* HashMap<&'static str, Box<dyn CommandStrategy>> as built by init_command_strategies
init_command_strategies ==
  { << Name_echo, "EchoCommand" >>,
     << Name_keys, "KeysCommand" >>,
     << Name_auth, "AuthCommand" >>,
     << Name_select, "SelectCommand" >>,
     << Name_exists, "ExistsCommand" >>,
     << Name_expire, "ExpireCommand" >>,
     << Name_dbsize, "DBSizeCommand" >>,
     << Name_set, "SetCommand" >>,
     << Name_get, "GetCommand" >>,
     << Name_del, "DelCommand" >>,
     << Name_flushall, "FlushAllCommand" >>,
     << Name_flushdb, "FlushDbCommand" >>,
     << Name_append, "AppendCommand" >>,
     << Name_rename, "RenameCommand" >>,
     << Name_move, "MoveCommand" >>,
     << Name_llen, "LlenCommand" >>,
     << Name_lpush, "LpushCommand" >>,
     << Name_rpush, "RpushCommand" >>,
     << Name_incr, "IncrCommand" >>,
     << Name_decr, "DecrCommand" >> }

\* the names the table holds
RegisteredNames == { e[1] : e \in init_command_strategies }

LowerChar(c) ==
  IF \E i \in 1..26 : UpperAlpha[i] = c
    THEN LowerAlpha[CHOOSE i \in 1..26 : UpperAlpha[i] = c]
    ELSE c

\* a lookup of the lower-cased name
StrategyOf_IgnoreCase(strategies, command) ==
  LET lower == [i \in 1..Len(command) |-> LowerChar(command[i])]
  IN IF \E e \in strategies : e[1] = lower
       THEN (CHOOSE e \in strategies : e[1] = lower)[2]
       ELSE "None"

\* command_strategies.get(command): the handler bound to exactly this name
StrategyOf(strategies, command) ==
  IF \E e \in strategies : e[1] = command
    THEN (CHOOSE e \in strategies : e[1] = command)[2]
    ELSE "None"

(***************************************************************************)
(* Requests.  A request is the sequence of its tokens, the command name    *)
(* first.  The client sends it as a multi-bulk array and the connection    *)
(* loop splits the bytes read on "\r\n".                                   *)
(***************************************************************************)
RECURSIVE Decimal(_)
\* the decimal digits of a natural number
Decimal(n) ==
  IF n < 10 THEN << Digits[n + 1] >>
  ELSE Decimal(n \div 10) \o << Digits[(n % 10) + 1] >>

RECURSIVE Bulks(_)
\* "$<len>", "<token>" for each token in turn
Bulks(tokens) ==
  IF Len(tokens) = 0 THEN << >>
  ELSE << << "$" >> \o Decimal(Len(Head(tokens))), Head(tokens) >>
       \o Bulks(Tail(tokens))

\* body.split("\r\n").collect(): "*<n>", then the bulks, then the empty
\* string that follows the last "\r\n"
Fragments(request) ==
  << << "*" >> \o Decimal(Len(request)) >> \o Bulks(request) \o << << >> >>

\* fragments[i] of the Rust code, which counts from 0
Frag(fragments, i) == fragments[i + 1]

\* whether fragments[i] is inside the vector (indexing outside it panics)
HasFrag(fragments, i) == i < Len(fragments)

\* let command = fragments[2]
CommandOf(fragments) == Frag(fragments, 2)

Opt_PX == << "P", "X" >>

Opt_EX == << "E", "X" >>

(***************************************************************************)
(* SetCommand::execute, lines 32 to 45: what the handler asks of the store *)
(* for the fragments of one request.  kind is "panic" (an index outside    *)
(* the vector, or unwrap of a failed parse), "set", "set_with_ttl", or     *)
(* "none" (more than 8 fragments and an option that is neither PX nor EX). *)
(* overflow_checks tells whether the build checks integer overflow (the    *)
(* dev profile does, the release profile does not).                        *)
(***************************************************************************)
SetPanic == [kind |-> "panic", key |-> << >>, value |-> << >>,
             ttl |-> NumOfNat(0)]

\* the PX branch: let ttl = fragments[10].parse::<i64>().unwrap()
SetPxPlan(fragments, key, value) ==
  IF ~HasFrag(fragments, 10) THEN SetPanic
  ELSE LET ttl == ParseI64(Frag(fragments, 10))
       IN IF ~ttl.ok THEN SetPanic
          ELSE [kind |-> "set_with_ttl", key |-> key, value |-> value,
                ttl |-> ttl.val]

\* the EX branch: the same, and let ttl_millis = ttl * 1000
SetExPlan(fragments, key, value, overflow_checks) ==
  IF ~HasFrag(fragments, 10) THEN SetPanic
  ELSE LET ttl == ParseI64(Frag(fragments, 10))
           ttl_millis == I64Times1000(ttl.val, overflow_checks)
       IN IF ~ttl.ok \/ ~ttl_millis.ok THEN SetPanic
          ELSE [kind |-> "set_with_ttl", key |-> key, value |-> value,
                ttl |-> ttl_millis.val]

SetPlan(fragments, overflow_checks) ==
  IF ~HasFrag(fragments, 4) \/ ~HasFrag(fragments, 6) THEN SetPanic
  ELSE LET key == Frag(fragments, 4)
           value == Frag(fragments, 6)
       IN IF Len(fragments) > 8
            THEN IF ToUppercase(Frag(fragments, 8)) = Opt_PX
                   THEN SetPxPlan(fragments, key, value)
                 ELSE IF ToUppercase(Frag(fragments, 8)) = Opt_EX
                   THEN SetExPlan(fragments, key, value, overflow_checks)
                 ELSE [kind |-> "none", key |-> key, value |-> value,
                       ttl |-> NumOfNat(0)]
            ELSE [kind |-> "set", key |-> key, value |-> value,
                  ttl |-> NumOfNat(0)]

(***************************************************************************)
(* Option values, the session and the keyspace store.                      *)
(***************************************************************************)
None == << >>

Some(x) == << x >>

\* Session::new(): database 0; the authenticated flag starts as the design
\* document gives it, true exactly when no password is configured
NewSession(pw) == [selected_database |-> 0, authenticated |-> (pw = None)]

\* an entry of a database: the value and its optional deadline
Entry(value, expire_at) == [value |-> value, expire_at |-> expire_at]

\* Redis::set: store the value with no deadline
RedisSet(dbs, i, key, value) ==
  [dbs EXCEPT ![i] = [@ EXCEPT ![key] = Some(Entry(value, None))]]

\* Redis::set_with_ttl: store the value with deadline now + ttl
RedisSetWithTtl(dbs, i, key, value, ttl, clock) ==
  [dbs EXCEPT ![i] =
     [@ EXCEPT ![key] = Some(Entry(value, Some(NumAdd(NumOfNat(clock), ttl))))]]

\* Redis::flush_db: clear one database
RedisFlushDb(dbs, i) ==
  [dbs EXCEPT ![i] = [k \in DOMAIN @ |-> None]]

(***************************************************************************)
(* The persistence log, after the design document: a record is one         *)
(* mutating command, resolved against the database it targeted, a deadline *)
(* recorded as the absolute time.  The store appends the record of a       *)
(* mutation as part of the mutation.                                       *)
(***************************************************************************)
SetRecord(i, key, value, expire_at) ==
  [op |-> "set", db |-> i, key |-> key, value |-> value,
   expire_at |-> expire_at]

FlushDbRecord(i) ==
  [op |-> "flushdb", db |-> i, key |-> << >>, value |-> << >>,
   expire_at |-> None]

\* the record Redis::set appends
AofSet(log, i, key, value) == Append(log, SetRecord(i, key, value, None))

\* the record Redis::set_with_ttl appends
AofSetWithTtl(log, i, key, value, ttl, clock) ==
  Append(log, SetRecord(i, key, value, Some(NumAdd(NumOfNat(clock), ttl))))

\* the record Redis::flush_db appends
AofFlushDb(log, i) == Append(log, FlushDbRecord(i))

\* load_aof re-executes one record against the keyspace
ReplayRecord(dbs, record) ==
  IF record.op = "set"
    THEN [dbs EXCEPT ![record.db] =
            [@ EXCEPT ![record.key] =
               Some(Entry(record.value, record.expire_at))]]
    ELSE RedisFlushDb(dbs, record.db)

(***************************************************************************)
(* The inputs of the model.                                                *)
(***************************************************************************)
Key1 == << "k", "1" >>

Key2 == << "k", "2" >>

Val1 == << "v", "1" >>

Val2 == << "v", "2" >>

Keys == {Key1, Key2}

\* the least number of seconds whose milliseconds are no value of i64
HugeSeconds ==
  << "9", "2", "2", "3", "3", "7", "2", "0", "3", "6", "8", "5", "4", "7",
     "7", "6" >>

Secret == << "p", "w" >>

\* the `password` option: absent, or the secret
Passwords == {None, Some(Secret)}

Requests ==
  { << Name_echo, << "h", "i" >> >>,
    << << "p", "i", "n", "g" >> >>,
    << << "S", "E", "T" >>, Key1, Val1 >>,
    << Name_set, Key1, Val1 >>,
    << Name_set, Key1, Val2 >>,
    << Name_set, Key1, Val1, << "p", "x" >>, << "2" >> >>,
    << Name_set, Key1, Val1, << "E", "x" >>, << "1" >> >>,
    << Name_set, Key1, Val1, Opt_EX, HugeSeconds >>,
    << Name_set, Key1, Val1, Opt_EX, << "a", "b", "c" >> >>,
    << Name_set, Key1, Val1, Opt_EX >>,
    << Name_set, Key1, Val1, << "N", "X" >> >>,
    << Name_flushdb >>,
    << Name_auth, Secret >>,
    << Name_auth, << "x", "x" >> >>,
    << Name_select, << "1" >> >>,
    << Name_select, << "9" >> >> }

\* the keyspace after startup: what Redis::new and load_aof leave in it,
\* nothing, or a key without deadline in every database
EmptyKeyspace == [i \in DbIndexes |-> [k \in Keys |-> None]]

\* the log an earlier run has left: one SET in every database
StoredLog ==
  [n \in 1..NumDatabases |-> SetRecord(n - 1, Key2, Val2, None)]

LoadedKeyspace ==
  [i \in DbIndexes |-> [k \in Keys |->
     IF k = Key2 THEN Some(Entry(Val2, None)) ELSE None]]

(***************************************************************************)
(* Replies, as written to the stream.                                      *)
(***************************************************************************)
Reply(text, arg) == [text |-> text, arg |-> arg]

AuthRequired == Reply("-ERR Authentication required\r\n", << >>)

Pong == Reply("+PONG\r\n", << >>)

Ok == Reply("+OK\r\n", << >>)

(***************************************************************************)
(* The state.                                                              *)
(***************************************************************************)
VARIABLES
  password,            \* redis_config.password
  databases,           \* the keyspace inside the Mutex<Redis>
  session_manager,     \* the HashMap<String, Session> inside its Mutex
  redis_lock,          \* the keyspace mutex: its holder and its poison flag
  session_lock,        \* the session mutex: its holder and its poison flag
  now,                 \* the clock, in milliseconds
  pc,                  \* where each connection thread stands
  session_id,          \* each thread's session_id (the peer address)
  stream,              \* each thread's TCP stream: "none", "open", "reset", "closed"
  fragments,           \* the fragments of the request a thread is handling
  written,             \* the replies written for that request
  db_index,            \* the db_index local of SET and FLUSHDB
  nreqs,               \* requests read so far, by all connections
  aof,                 \* the records of the persistence log, oldest first
  main_pc,             \* where the main thread stands
  replayed             \* the records load_aof has replayed so far

vars ==
  << password, databases, session_manager, redis_lock, session_lock, now, pc,
     session_id, stream, fragments, written, db_index,
     nreqs, aof, main_pc, replayed >>

Unlocked == [holder |-> None, poisoned |-> FALSE]

Init ==
  /\ password \in Passwords
  /\ databases = EmptyKeyspace
  /\ aof \in {<< >>, StoredLog}
  /\ main_pc = "lock"
  /\ replayed = 0
  /\ session_manager = [p \in Peers |-> None]
  /\ redis_lock = Unlocked
  /\ session_lock = Unlocked
  /\ now = 0
  /\ pc = [t \in Conns |-> "idle"]
  /\ session_id = [t \in Conns |-> ""]
  /\ stream = [t \in Conns |-> "none"]
  /\ fragments = [t \in Conns |-> << >>]
  /\ written = [t \in Conns |-> << >>]
  /\ db_index = [t \in Conns |-> 0]
  /\ nreqs = 0

(***************************************************************************)
(* Mutexes.  lock() waits while another thread holds the mutex; on a       *)
(* poisoned mutex it returns Err and unwrap() panics.  A thread that       *)
(* panics drops its guards while unwinding, which poisons and releases     *)
(* every mutex it holds, and drops its stream.                             *)
(***************************************************************************)
Free(lock) == lock.holder = None

Held(lock, t) == lock.holder = Some(t)

Acquire(lock, t) == [lock EXCEPT !.holder = Some(t)]

Release(lock) == [lock EXCEPT !.holder = None]

Unwind(lock, t) ==
  IF Held(lock, t) THEN [holder |-> None, poisoned |-> TRUE] ELSE lock

Goto(t, label) == pc' = [pc EXCEPT ![t] = label]

\* the thread panics: nothing of its request is left but the guards it drops
Panic(t) ==
  /\ Goto(t, "panicked")
  /\ stream' = [stream EXCEPT ![t] = "closed"]
  /\ redis_lock' = Unwind(redis_lock, t)
  /\ session_lock' = Unwind(session_lock, t)
  /\ UNCHANGED << password, databases, session_manager, now, session_id,
                  fragments, written, db_index, nreqs, aof, main_pc,
                  replayed >>

\* stream.write(..) succeeds on a connected stream and fails on a reset one
CanWrite(t) == stream[t] = "open"

Write(t, reply) == written' = [written EXCEPT ![t] = Append(@, reply)]

\* stream.peer_addr() fails on a reset stream
HasPeerAddr(t) == stream[t] = "open"

(***************************************************************************)
(* The environment: the clock, and the peers.                              *)
(***************************************************************************)
Tick ==
  /\ now < MaxNow
  /\ now' = now + 1
  /\ UNCHANGED << password, databases, session_manager, redis_lock,
                  session_lock, pc, session_id, stream, fragments, written,
                  db_index, nreqs, aof, main_pc, replayed >>

\* the peer resets the connection, whatever its thread is doing
PeerReset(t) ==
  /\ stream[t] = "open"
  /\ stream' = [stream EXCEPT ![t] = "reset"]
  /\ UNCHANGED << password, databases, session_manager, redis_lock,
                  session_lock, now, pc, session_id, fragments, written,
                  db_index, nreqs, aof, main_pc, replayed >>

(***************************************************************************)
(* main, lines 81 to 90: the log is replayed under the keyspace mutex,     *)
(* record by record, before the accept loop is entered.                    *)
(***************************************************************************)
MainThread == 0

\* redis.lock()
MainLock ==
  /\ main_pc = "lock"
  /\ Free(redis_lock)
  /\ redis_lock' = Acquire(redis_lock, MainThread)
  /\ main_pc' = "load_aof"
  /\ UNCHANGED << password, databases, session_manager, session_lock, now,
                  pc, session_id, stream, fragments, written, db_index,
                  nreqs, aof, replayed >>

\* redis_c.load_aof(): the next record of the log
LoadRecord ==
  /\ main_pc = "load_aof"
  /\ replayed < Len(aof)
  /\ databases' = ReplayRecord(databases, aof[replayed + 1])
  /\ replayed' = replayed + 1
  /\ UNCHANGED << password, session_manager, redis_lock, session_lock, now,
                  pc, session_id, stream, fragments, written, db_index,
                  nreqs, aof, main_pc >>

\* load_aof returns, the guard is dropped, and main goes on to the accept
\* loop
MainUnlock ==
  /\ main_pc = "load_aof"
  /\ replayed = Len(aof)
  /\ redis_lock' = Release(redis_lock)
  /\ main_pc' = "accept"
  /\ UNCHANGED << password, databases, session_manager, session_lock, now,
                  pc, session_id, stream, fragments, written, db_index,
                  nreqs, aof, replayed >>

(***************************************************************************)
(* main: the accept loop spawns a thread for the stream; connection()      *)
(* builds its command table and takes the peer address as its session id.  *)
(* A peer address is that of at most one connected stream.                 *)
(***************************************************************************)
\* the accept loop runs while main is still replaying the log
Accept_BeforeReplay(t, p) ==
  /\ pc[t] = "idle"
  /\ \A u \in Conns : session_id[u] = p => stream[u] \in {"reset", "closed"}
  /\ Goto(t, "create")
  /\ stream' = [stream EXCEPT ![t] = "open"]
  /\ session_id' = [session_id EXCEPT ![t] = p]
  /\ UNCHANGED << password, databases, session_manager, redis_lock,
                  session_lock, now, fragments, written, db_index, nreqs,
                  aof, main_pc, replayed >>

Accept(t, p) ==
  /\ main_pc = "accept"
  /\ pc[t] = "idle"
  /\ \A u \in Conns : session_id[u] = p => stream[u] \in {"reset", "closed"}
  /\ Goto(t, "create")
  /\ stream' = [stream EXCEPT ![t] = "open"]
  /\ session_id' = [session_id EXCEPT ![t] = p]
  /\ UNCHANGED << password, databases, session_manager, redis_lock,
                  session_lock, now, fragments, written, db_index, nreqs,
                  aof, main_pc, replayed >>

\* connection, lines 167 to 175: session_manager.lock().unwrap()
CreateLock(t) ==
  /\ pc[t] = "create"
  /\ Free(session_lock)
  /\ IF session_lock.poisoned THEN Panic(t)
     ELSE /\ session_lock' = Acquire(session_lock, t)
          /\ Goto(t, "creating")
          /\ UNCHANGED << password, databases, session_manager, redis_lock,
                          now, session_id, stream, fragments, written,
                          db_index, nreqs, aof, main_pc, replayed >>

\* entry(session_id).or_insert(Session::new()): a session already
\* registered under the id is kept
CreateSession_KeepExisting(t) ==
  /\ pc[t] = "creating"
  /\ session_manager' =
       IF session_manager[session_id[t]] = None
         THEN [session_manager EXCEPT
                 ![session_id[t]] = Some(NewSession(password))]
         ELSE session_manager
  /\ session_lock' = Release(session_lock)
  /\ Goto(t, "read")
  /\ UNCHANGED << password, databases, redis_lock, now, session_id, stream,
                  fragments, written, db_index, nreqs, aof, main_pc,
                  replayed >>

\* insert(session_id.clone(), Session::new()), and the guard is dropped
CreateSession(t) ==
  /\ pc[t] = "creating"
  /\ session_manager' =
       [session_manager EXCEPT ![session_id[t]] = Some(NewSession(password))]
  /\ session_lock' = Release(session_lock)
  /\ Goto(t, "read")
  /\ UNCHANGED << password, databases, redis_lock, now, session_id, stream,
                  fragments, written, db_index, nreqs, aof, main_pc,
                  replayed >>

(***************************************************************************)
(* The loop: stream.read.                                                  *)
(***************************************************************************)
\* the next request is read and handed on while the one before it is
\* still waiting for its lookup
ReadRequest_Pipelined(t, request) ==
  /\ pc[t] \in {"read", "dispatch"}
  /\ stream[t] = "open"
  /\ nreqs < MaxReqs
  /\ nreqs' = nreqs + 1
  /\ fragments' = [fragments EXCEPT ![t] = Fragments(request)]
  /\ written' = [written EXCEPT ![t] = << >>]
  /\ Goto(t, "gate")
  /\ UNCHANGED << password, databases, session_manager, redis_lock,
                  session_lock, now, session_id, stream, db_index, aof,
                  main_pc, replayed >>

\* Ok(size) with size > 0: a request arrives and is split into fragments
ReadRequest(t, request) ==
  /\ pc[t] = "read"
  /\ stream[t] = "open"
  /\ nreqs < MaxReqs
  /\ nreqs' = nreqs + 1
  /\ fragments' = [fragments EXCEPT ![t] = Fragments(request)]
  /\ written' = [written EXCEPT ![t] = << >>]
  /\ Goto(t, "gate")
  /\ UNCHANGED << password, databases, session_manager, redis_lock,
                  session_lock, now, session_id, stream, db_index, aof,
                  main_pc, replayed >>

\* Ok(0): the peer has closed; break 'main, and the stream is dropped
ReadEof(t) ==
  /\ pc[t] = "read"
  /\ stream[t] = "open"
  /\ stream' = [stream EXCEPT ![t] = "closed"]
  /\ Goto(t, "done")
  /\ UNCHANGED << password, databases, session_manager, redis_lock,
                  session_lock, now, session_id, fragments, written,
                  db_index, nreqs, aof, main_pc, replayed >>

\* Err(_): session_manager.lock().unwrap()
ReadErr(t) ==
  /\ pc[t] = "read"
  /\ stream[t] = "reset"
  /\ Free(session_lock)
  /\ IF session_lock.poisoned THEN Panic(t)
     ELSE /\ session_lock' = Acquire(session_lock, t)
          /\ Goto(t, "destroy")
          /\ UNCHANGED << password, databases, session_manager, redis_lock,
                          now, session_id, stream, fragments, written,
                          db_index, nreqs, aof, main_pc, replayed >>

\* remove(&session_id); break 'main: the guard and the stream are dropped
DestroySession(t) ==
  /\ pc[t] = "destroy"
  /\ session_manager' = [session_manager EXCEPT ![session_id[t]] = None]
  /\ session_lock' = Release(session_lock)
  /\ stream' = [stream EXCEPT ![t] = "closed"]
  /\ Goto(t, "done")
  /\ UNCHANGED << password, databases, redis_lock, now, session_id,
                  fragments, written, db_index, nreqs, aof, main_pc,
                  replayed >>

(***************************************************************************)
(* The authentication gate, connection lines 196 to 210.                   *)
(***************************************************************************)
\* redis_config.password != None && command != "auth", and then
\* !session.get_authenticated()
GateRejects(pw, command, session) ==
  /\ pw # None
  /\ command # Name_auth
  /\ ~session.authenticated

\* session_manager.lock().unwrap()
GateLock(t) ==
  /\ pc[t] = "gate"
  /\ Free(session_lock)
  /\ IF session_lock.poisoned THEN Panic(t)
     ELSE /\ session_lock' = Acquire(session_lock, t)
          /\ Goto(t, "gating")
          /\ UNCHANGED << password, databases, session_manager, redis_lock,
                          now, session_id, stream, fragments, written,
                          db_index, nreqs, aof, main_pc, replayed >>

\* the guard of the gate lives on into the dispatch of the request
GateCheck_KeepsGuard(t) ==
  /\ pc[t] = "gating"
  /\ LET session == session_manager[session_id[t]]
     IN IF session = None THEN Panic(t)
        ELSE IF GateRejects(password, CommandOf(fragments[t]), session[1])
          THEN IF CanWrite(t)
                 THEN /\ Write(t, AuthRequired)
                      /\ session_lock' = Release(session_lock)
                      /\ Goto(t, "read")
                      /\ UNCHANGED << password, databases, session_manager,
                                      redis_lock, now, session_id, stream,
                                      fragments, db_index, nreqs, aof,
                                      main_pc, replayed >>
                 ELSE Panic(t)
        ELSE /\ Goto(t, "dispatch")
             /\ UNCHANGED << session_lock, password, databases, session_manager,
                             redis_lock, now, session_id, stream,
                             fragments, written, db_index, nreqs, aof,
                             main_pc, replayed >>

\* get(&session_id).unwrap(), the check, and either the error reply and
\* `continue 'main`, or the end of the block; the guard is dropped either way
GateCheck(t) ==
  /\ pc[t] = "gating"
  /\ LET session == session_manager[session_id[t]]
     IN IF session = None THEN Panic(t)
        ELSE IF GateRejects(password, CommandOf(fragments[t]), session[1])
          THEN IF CanWrite(t)
                 THEN /\ Write(t, AuthRequired)
                      /\ session_lock' = Release(session_lock)
                      /\ Goto(t, "read")
                      /\ UNCHANGED << password, databases, session_manager,
                                      redis_lock, now, session_id, stream,
                                      fragments, db_index, nreqs, aof,
                                      main_pc, replayed >>
                 ELSE Panic(t)
        ELSE /\ session_lock' = Release(session_lock)
             /\ Goto(t, "dispatch")
             /\ UNCHANGED << password, databases, session_manager,
                             redis_lock, now, session_id, stream,
                             fragments, written, db_index, nreqs, aof,
                             main_pc, replayed >>

(***************************************************************************)
(* Dispatch, connection lines 220 to 230: the handler bound to the name,   *)
(* or +PONG.  A thread inside a handler stands at the handler's name.      *)
(***************************************************************************)
\* an unknown command is answered with an error
Dispatch_UnknownIsError(t) ==
  /\ pc[t] = "dispatch"
  /\ LET strategy == StrategyOf(init_command_strategies, CommandOf(fragments[t]))
     IN IF strategy # "None"
          THEN /\ Goto(t, strategy)
               /\ UNCHANGED << password, databases, session_manager,
                               redis_lock, session_lock, now, session_id,
                               stream, fragments, written, db_index, nreqs,
                               aof, main_pc, replayed >>
        ELSE IF CanWrite(t)
          THEN /\ Write(t, Reply("-ERR unknown command\r\n", << >>))
               /\ Goto(t, "read")
               /\ UNCHANGED << password, databases, session_manager,
                               redis_lock, session_lock, now, session_id,
                               stream, fragments, db_index, nreqs, aof,
                               main_pc, replayed >>
        ELSE Panic(t)

Dispatch(t) ==
  /\ pc[t] = "dispatch"
  /\ LET strategy == StrategyOf(init_command_strategies, CommandOf(fragments[t]))
     IN IF strategy # "None"
          THEN /\ Goto(t, strategy)
               /\ UNCHANGED << password, databases, session_manager,
                               redis_lock, session_lock, now, session_id,
                               stream, fragments, written, db_index, nreqs,
                               aof, main_pc, replayed >>
        ELSE IF CanWrite(t)
          THEN /\ Write(t, Pong)
               /\ Goto(t, "read")
               /\ UNCHANGED << password, databases, session_manager,
                               redis_lock, session_lock, now, session_id,
                               stream, fragments, db_index, nreqs, aof,
                               main_pc, replayed >>
        ELSE Panic(t)

(***************************************************************************)
(* EchoCommand::execute.                                                   *)
(***************************************************************************)
Echo(t) ==
  /\ pc[t] = "EchoCommand"
  /\ IF HasFrag(fragments[t], 4) /\ CanWrite(t)
       THEN /\ Write(t, Reply("+{}\r\n", Frag(fragments[t], 4)))
            /\ Goto(t, "read")
            /\ UNCHANGED << password, databases, session_manager,
                            redis_lock, session_lock, now, session_id,
                            stream, fragments, db_index, nreqs, aof,
                            main_pc, replayed >>
       ELSE Panic(t)

(***************************************************************************)
(* The opening of SetCommand::execute and of FlushDbCommand::execute,      *)
(* lines 21 to 30 and 19 to 28: the same code in both.                     *)
(***************************************************************************)
\* a lock() that does not wait for the holder to drop its guard
LockRedis_NoWait(t, from, to) ==
  /\ pc[t] = from
  /\ IF redis_lock.poisoned THEN Panic(t)
     ELSE /\ redis_lock' = Acquire(redis_lock, t)
          /\ Goto(t, to)
          /\ UNCHANGED << password, databases, session_manager, session_lock,
                          now, session_id, stream, fragments, written,
                          db_index, nreqs, aof, main_pc, replayed >>

\* redis.lock().unwrap()
LockRedis(t, from, to) ==
  /\ pc[t] = from
  /\ Free(redis_lock)
  /\ IF redis_lock.poisoned THEN Panic(t)
     ELSE /\ redis_lock' = Acquire(redis_lock, t)
          /\ Goto(t, to)
          /\ UNCHANGED << password, databases, session_manager,
                          session_lock, now, session_id, stream, fragments,
                          written, db_index, nreqs, aof, main_pc, replayed >>

\* sessions.lock().unwrap()
LockSessions(t, from, to) ==
  /\ pc[t] = from
  /\ Free(session_lock)
  /\ IF session_lock.poisoned THEN Panic(t)
     ELSE /\ session_lock' = Acquire(session_lock, t)
          /\ Goto(t, to)
          /\ UNCHANGED << password, databases, session_manager, redis_lock,
                          now, session_id, stream, fragments, written,
                          db_index, nreqs, aof, main_pc, replayed >>

\* sessions_ref.get(&stream.peer_addr().unwrap().to_string()): the selected
\* database, or `return` with both guards dropped and nothing written
ResolveDbIndex(t, from, to) ==
  /\ pc[t] = from
  /\ IF ~HasPeerAddr(t) THEN Panic(t)
     ELSE LET session == session_manager[session_id[t]]
          IN /\ session_lock' = Release(session_lock)
             /\ IF session = None
                  THEN /\ redis_lock' = Release(redis_lock)
                       /\ Goto(t, "read")
                       /\ UNCHANGED db_index
                  ELSE /\ db_index' =
                            [db_index EXCEPT ![t] = session[1].selected_database]
                       /\ Goto(t, to)
                       /\ UNCHANGED redis_lock
             /\ UNCHANGED << password, databases, session_manager, now,
                             session_id, stream, fragments, written, nreqs,
                             aof, main_pc, replayed >>

\* stream.write(b"+OK\r\n").unwrap(), and the keyspace guard is dropped
ReplyOkUnlock(t, from) ==
  /\ pc[t] = from
  /\ IF CanWrite(t)
       THEN /\ Write(t, Ok)
            /\ redis_lock' = Release(redis_lock)
            /\ Goto(t, "read")
            /\ UNCHANGED << password, databases, session_manager,
                            session_lock, now, session_id, stream,
                            fragments, db_index, nreqs, aof, main_pc,
                            replayed >>
       ELSE Panic(t)

(***************************************************************************)
(* SetCommand::execute.                                                    *)
(***************************************************************************)
SetLockRedis(t) == LockRedis(t, "SetCommand", "set_sessions")

SetLockSessions(t) == LockSessions(t, "set_sessions", "set_db_index")

SetDbIndex(t) == ResolveDbIndex(t, "set_db_index", "set_store")

\* the store is always asked for database 0, not for db_index
SetStore_DefaultDb(t) ==
  /\ pc[t] = "set_store"
  /\ \E overflow_checks \in BOOLEAN :
     LET plan == SetPlan(fragments[t], overflow_checks)
     IN IF plan.kind = "panic" THEN Panic(t)
        ELSE /\ databases' =
                  IF plan.kind = "set"
                    THEN RedisSet(databases, 0, plan.key, plan.value)
                  ELSE IF plan.kind = "set_with_ttl"
                    THEN RedisSetWithTtl(databases, 0, plan.key,
                                         plan.value, plan.ttl, now)
                  ELSE databases
             /\ aof' =
                  IF plan.kind = "set"
                    THEN AofSet(aof, 0, plan.key, plan.value)
                  ELSE IF plan.kind = "set_with_ttl"
                    THEN AofSetWithTtl(aof, 0, plan.key, plan.value,
                                       plan.ttl, now)
                  ELSE aof
             /\ Goto(t, "set_reply")
             /\ UNCHANGED << password, session_manager, redis_lock,
                             session_lock, now, session_id, stream,
                             fragments, written, db_index, nreqs,
                             main_pc, replayed >>

\* the keyspace is written without a record in the log
SetStore_Unlogged(t) ==
  /\ pc[t] = "set_store"
  /\ \E overflow_checks \in BOOLEAN :
     LET plan == SetPlan(fragments[t], overflow_checks)
     IN IF plan.kind = "panic" THEN Panic(t)
        ELSE /\ databases' =
                  IF plan.kind = "set"
                    THEN RedisSet(databases, db_index[t], plan.key, plan.value)
                  ELSE IF plan.kind = "set_with_ttl"
                    THEN RedisSetWithTtl(databases, db_index[t], plan.key,
                                         plan.value, plan.ttl, now)
                  ELSE databases
             /\ Goto(t, "set_reply")
             /\ UNCHANGED << password, session_manager, redis_lock,
                             session_lock, now, session_id, stream,
                             fragments, written, db_index, nreqs,
                             aof, main_pc, replayed >>

\* lines 32 to 45
SetStore(t) ==
  /\ pc[t] = "set_store"
  /\ \E overflow_checks \in BOOLEAN :
     LET plan == SetPlan(fragments[t], overflow_checks)
     IN IF plan.kind = "panic" THEN Panic(t)
        ELSE /\ databases' =
                  IF plan.kind = "set"
                    THEN RedisSet(databases, db_index[t], plan.key, plan.value)
                  ELSE IF plan.kind = "set_with_ttl"
                    THEN RedisSetWithTtl(databases, db_index[t], plan.key,
                                         plan.value, plan.ttl, now)
                  ELSE databases
             /\ aof' =
                  IF plan.kind = "set"
                    THEN AofSet(aof, db_index[t], plan.key, plan.value)
                  ELSE IF plan.kind = "set_with_ttl"
                    THEN AofSetWithTtl(aof, db_index[t], plan.key, plan.value,
                                       plan.ttl, now)
                  ELSE aof
             /\ Goto(t, "set_reply")
             /\ UNCHANGED << password, session_manager, redis_lock,
                             session_lock, now, session_id, stream,
                             fragments, written, db_index, nreqs,
                             main_pc, replayed >>

SetReply(t) == ReplyOkUnlock(t, "set_reply")

(***************************************************************************)
(* FlushDbCommand::execute.                                                *)
(***************************************************************************)
FlushDbLockRedis(t) == LockRedis(t, "FlushDbCommand", "flushdb_sessions")

FlushDbLockSessions(t) ==
  LockSessions(t, "flushdb_sessions", "flushdb_db_index")

FlushDbDbIndex(t) == ResolveDbIndex(t, "flushdb_db_index", "flushdb_store")

\* every database is cleared, as flush_all would
FlushDbStore_All(t) ==
  /\ pc[t] = "flushdb_store"
  /\ databases' = [i \in DbIndexes |-> [k \in Keys |-> None]]
  /\ aof' = AofFlushDb(aof, db_index[t])
  /\ Goto(t, "flushdb_reply")
  /\ UNCHANGED << password, session_manager, redis_lock, session_lock, now,
                  session_id, stream, fragments, written, db_index, nreqs, main_pc, replayed >>

\* redis_ref.flush_db(db_index)
FlushDbStore(t) ==
  /\ pc[t] = "flushdb_store"
  /\ databases' = RedisFlushDb(databases, db_index[t])
  /\ aof' = AofFlushDb(aof, db_index[t])
  /\ Goto(t, "flushdb_reply")
  /\ UNCHANGED << password, session_manager, redis_lock, session_lock, now,
                  session_id, stream, fragments, written, db_index, nreqs, main_pc, replayed >>

FlushDbReply(t) == ReplyOkUnlock(t, "flushdb_reply")

(***************************************************************************)
(* AuthCommand and SelectCommand, after the design document: the session   *)
(* is updated under the session mutex and the reply is written after the   *)
(* guard is dropped.  A handler that finds no session returns without a    *)
(* reply, as SET and FLUSHDB do.                                           *)
(***************************************************************************)
AuthLock(t) == LockSessions(t, "AuthCommand", "auth_session")

\* the flag is set when the credential equals the password exactly
AuthExecute(t) ==
  /\ pc[t] = "auth_session"
  /\ LET session == session_manager[session_id[t]]
         accepted == /\ HasFrag(fragments[t], 4)
                     /\ Some(Frag(fragments[t], 4)) = password
     IN /\ session_manager' =
             IF session # None /\ accepted
               THEN [session_manager EXCEPT ![session_id[t]] =
                       Some([session[1] EXCEPT !.authenticated = TRUE])]
               ELSE session_manager
        /\ Goto(t, IF session = None THEN "read"
                   ELSE IF accepted THEN "reply_ok" ELSE "reply_error")
  /\ session_lock' = Release(session_lock)
  /\ UNCHANGED << password, databases, redis_lock, now, session_id, stream,
                  fragments, written, db_index, nreqs, aof, main_pc,
                  replayed >>

SelectLock(t) == LockSessions(t, "SelectCommand", "select_session")

\* the index is stored when it is a number below the number of databases
SelectExecute(t) ==
  /\ pc[t] = "select_session"
  /\ LET session == session_manager[session_id[t]]
         index == IF HasFrag(fragments[t], 4)
                    THEN ParseI64(Frag(fragments[t], 4))
                    ELSE [ok |-> FALSE, val |-> NumOfNat(0)]
         in_range == /\ index.ok
                     /\ \E i \in DbIndexes : index.val = NumOfNat(i)
         selected == CHOOSE i \in DbIndexes :
                       in_range => index.val = NumOfNat(i)
     IN /\ session_manager' =
             IF session # None /\ in_range
               THEN [session_manager EXCEPT ![session_id[t]] =
                       Some([session[1] EXCEPT !.selected_database = selected])]
               ELSE session_manager
        /\ Goto(t, IF session = None THEN "read"
                   ELSE IF in_range THEN "reply_ok" ELSE "reply_error")
  /\ session_lock' = Release(session_lock)
  /\ UNCHANGED << password, databases, redis_lock, now, session_id, stream,
                  fragments, written, db_index, nreqs, aof, main_pc,
                  replayed >>

Error == Reply("-ERR\r\n", << >>)

\* the reply of AUTH or SELECT
SessionReply(t) ==
  /\ pc[t] \in {"reply_ok", "reply_error"}
  /\ IF CanWrite(t)
       THEN /\ Write(t, IF pc[t] = "reply_ok" THEN Ok ELSE Error)
            /\ Goto(t, "read")
            /\ UNCHANGED << password, databases, session_manager,
                            redis_lock, session_lock, now, session_id,
                            stream, fragments, db_index, nreqs, aof,
                            main_pc, replayed >>
       ELSE Panic(t)

(***************************************************************************)
(* The specification.                                                      *)
(***************************************************************************)
Next ==
  \/ MainLock
  \/ LoadRecord
  \/ MainUnlock
  \/ Tick
  \/ \E t \in Conns : PeerReset(t)
  \/ \E t \in Conns, p \in Peers : Accept(t, p)
  \/ \E t \in Conns : CreateLock(t)
  \/ \E t \in Conns : CreateSession(t)
  \/ \E t \in Conns, request \in Requests : ReadRequest(t, request)
  \/ \E t \in Conns : ReadEof(t)
  \/ \E t \in Conns : ReadErr(t)
  \/ \E t \in Conns : DestroySession(t)
  \/ \E t \in Conns : GateLock(t)
  \/ \E t \in Conns : GateCheck(t)
  \/ \E t \in Conns : Dispatch(t)
  \/ \E t \in Conns : Echo(t)
  \/ \E t \in Conns : SetLockRedis(t)
  \/ \E t \in Conns : SetLockSessions(t)
  \/ \E t \in Conns : SetDbIndex(t)
  \/ \E t \in Conns : SetStore(t)
  \/ \E t \in Conns : SetReply(t)
  \/ \E t \in Conns : FlushDbLockRedis(t)
  \/ \E t \in Conns : FlushDbLockSessions(t)
  \/ \E t \in Conns : FlushDbDbIndex(t)
  \/ \E t \in Conns : FlushDbStore(t)
  \/ \E t \in Conns : FlushDbReply(t)
  \/ \E t \in Conns : AuthLock(t)
  \/ \E t \in Conns : AuthExecute(t)
  \/ \E t \in Conns : SelectLock(t)
  \/ \E t \in Conns : SelectExecute(t)
  \/ \E t \in Conns : SessionReply(t)

Spec == Init /\ [][Next]_vars

(***************************************************************************)
(* Fair scheduling: a thread that can take a step of its own keeps none    *)
(* waiting for ever.  What the peers and the clock do is not constrained.  *)
(***************************************************************************)
\* the steps of main
MainStep == MainLock \/ LoadRecord \/ MainUnlock

\* the steps the thread of a connection takes by itself
ThreadStep(t) ==
  \/ CreateLock(t) \/ CreateSession(t)
  \/ ReadErr(t) \/ DestroySession(t)
  \/ GateLock(t) \/ GateCheck(t)
  \/ Dispatch(t)
  \/ Echo(t)
  \/ SetLockRedis(t) \/ SetLockSessions(t) \/ SetDbIndex(t)
  \/ SetStore(t) \/ SetReply(t)
  \/ FlushDbLockRedis(t) \/ FlushDbLockSessions(t) \/ FlushDbDbIndex(t)
  \/ FlushDbStore(t) \/ FlushDbReply(t)
  \/ AuthLock(t) \/ AuthExecute(t)
  \/ SelectLock(t) \/ SelectExecute(t)
  \/ SessionReply(t)

\* the requests of connected peers: ECHO, an unknown command, SET with
\* and without a complete option, FLUSHDB and AUTH
LiveRequests ==
  { << Name_echo, << "h", "i" >> >>,
    << << "p", "i", "n", "g" >> >>,
    << Name_set, Key1, Val1 >>,
    << Name_set, Key1, Val1, Opt_EX >>,
    << Name_flushdb >>,
    << Name_auth, Secret >> }

\* the server with peers that stay connected until they close in order:
\* no stream is reset, and the clock is not watched
LiveNext ==
  \/ MainStep
  \/ \E t \in Conns, p \in Peers : Accept(t, p)
  \/ \E t \in Conns : CreateLock(t)
  \/ \E t \in Conns : CreateSession(t)
  \/ \E t \in Conns, request \in LiveRequests : ReadRequest(t, request)
  \/ \E t \in Conns : ReadEof(t)
  \/ \E t \in Conns : GateLock(t)
  \/ \E t \in Conns : GateCheck(t)
  \/ \E t \in Conns : Dispatch(t)
  \/ \E t \in Conns : Echo(t)
  \/ \E t \in Conns : SetLockRedis(t)
  \/ \E t \in Conns : SetLockSessions(t)
  \/ \E t \in Conns : SetDbIndex(t)
  \/ \E t \in Conns : SetStore(t)
  \/ \E t \in Conns : SetReply(t)
  \/ \E t \in Conns : FlushDbLockRedis(t)
  \/ \E t \in Conns : FlushDbLockSessions(t)
  \/ \E t \in Conns : FlushDbDbIndex(t)
  \/ \E t \in Conns : FlushDbStore(t)
  \/ \E t \in Conns : FlushDbReply(t)
  \/ \E t \in Conns : AuthLock(t)
  \/ \E t \in Conns : AuthExecute(t)
  \/ \E t \in Conns : SessionReply(t)

FairSpec ==
  /\ Init
  /\ [][LiveNext]_vars
  /\ WF_vars(MainStep)
  /\ \A t \in Conns : WF_vars(ThreadStep(t))

(***************************************************************************)
(* Properties.                                                             *)
(***************************************************************************)
\* the session registered under the thread's session id, if any
SessionOf(t) == session_manager[session_id[t]]

\* the thread has read a request and has not finished with it
Handling(t) ==
  pc[t] \notin {"idle", "create", "creating", "read", "destroy", "done",
                "panicked"}

\* no mutex is poisoned
Healthy == ~redis_lock.poisoned /\ ~session_lock.poisoned

\* the thread stands inside the gate, holding the session mutex, with a
\* password configured, a command other than "auth" and a session that is
\* not authenticated
Challenged(t) ==
  /\ pc[t] = "gating"
  /\ password # None
  /\ CommandOf(fragments[t]) # Name_auth
  /\ SessionOf(t) # None
  /\ ~SessionOf(t)[1].authenticated

\* the thread's peer is connected and its session is authenticated
Authenticated(t) ==
  /\ stream[t] = "open"
  /\ SessionOf(t) # None
  /\ SessionOf(t)[1].authenticated

\* the step writes the reply r on the stream of t
Writes(t, r) == written'[t] = Append(written[t], r)

\* C1: with a password configured, the gate answers every request that is
\* not "auth" and whose session is not authenticated with the
\* authentication-required error, before any lookup: the thread goes back
\* to reading (or, its peer gone, dies on the failed write), never into
\* dispatch or a handler, and the keyspace and the sessions stay as they
\* were; and the session of a connected peer, once authenticated, does not
\* become unauthenticated again, and no authentication-required error is
\* written to a peer whose session is authenticated, so that no later
\* request of that connection is answered with that error.
C1_AuthGate ==
  [][\A t \in Conns :
       /\ (Challenged(t) /\ pc'[t] # pc[t]) =>
            /\ pc'[t] = IF stream[t] = "open" THEN "read" ELSE "panicked"
            /\ stream[t] = "open" => written'[t] = << AuthRequired >>
            /\ databases' = databases
            /\ session_manager' = session_manager
       /\ Authenticated(t) =>
            /\ \/ stream'[t] # "open"
               \/ SessionOf(t)' = None
               \/ SessionOf(t)'[1].authenticated
            /\ ~Writes(t, AuthRequired)]_vars

\* C2: a request whose handling ends, on a connected stream and with no
\* mutex poisoned and its session registered, has had exactly one reply
\* written, whether the thread goes back to reading or ends.
C2_OneReply ==
  [][\A t \in Conns :
       ( /\ Handling(t)
         /\ stream[t] = "open"
         /\ Healthy
         /\ SessionOf(t) # None
         /\ pc'[t] \in {"read", "panicked"} )
       => Len(written'[t]) = 1]_vars

\* a SET whose option is EX or PX and whose argument is missing or is not
\* an integer
MalformedTtl(f) ==
  /\ CommandOf(f) = Name_set
  /\ Len(f) > 8
  /\ ToUppercase(Frag(f, 8)) \in {Opt_EX, Opt_PX}
  /\ ~HasFrag(f, 10) \/ ~ParseI64(Frag(f, 10)).ok

\* C3: a SET with a missing or non-integer EX/PX argument, on a connected
\* stream, is answered with one error reply, leaves the keyspace as it was,
\* and its thread goes back to reading the next request.
C3_ErrorKeepsConnection ==
  [][\A t \in Conns :
       ( /\ pc[t] = "set_store"
         /\ MalformedTtl(fragments[t])
         /\ stream[t] = "open"
         /\ pc'[t] # pc[t] )
       => /\ pc'[t] # "panicked"
          /\ stream'[t] = "open"
          /\ Len(written'[t]) = 1
          /\ written'[t][1].text # Ok.text
          /\ databases' = databases]_vars

\* C4: once the loop of a connection has ended, by a read of 0 bytes or by
\* a read error, the registry holds no session under its id (unless another
\* connection has that id), and with no thread running the registry is empty.
C4_SessionDestroyed ==
  /\ \A t \in Conns :
       ( /\ pc[t] = "done"
         /\ \A u \in Conns \ {t} : session_id[u] # session_id[t] )
       => SessionOf(t) = None
  /\ (\A t \in Conns : pc[t] \in {"idle", "done"})
       => \A p \in Peers : session_manager[p] = None

\* C5: the session a connection registers when it starts is the default
\* one, database 0 and the flag at its initial value, whatever the registry
\* held under its id before.
C5_FreshSession ==
  [][\A t \in Conns :
       (pc[t] = "creating" /\ pc'[t] = "read") =>
         SessionOf(t)' =
           Some([selected_database |-> 0,
                 authenticated |-> (password = None)])]_vars

\* a connection has changed its session and ended, and a later connection
\* with the same id stands at its first read with the default session
C5_Witness ==
  \E t \in Conns, u \in Conns :
    /\ t # u
    /\ session_id[t] = session_id[u]
    /\ pc[u] = "done"
    /\ written[u] = << Ok >>
    /\ CommandOf(fragments[u]) \in {Name_auth, Name_select}
    /\ pc[t] = "read"
    /\ fragments[t] = << >>
    /\ SessionOf(t) = Some([selected_database |-> 0,
                            authenticated |-> (password = None)])

\* C6: SET reads its database index from the session registered under its
\* connection's id, in the command itself, and then writes the one key of
\* that one database: every other key and database, and every session,
\* stay as they were.
C6_SetFrame ==
  [][\A t \in Conns :
       /\ (pc[t] = "set_db_index" /\ pc'[t] = "set_store") =>
            /\ SessionOf(t) # None
            /\ db_index'[t] = SessionOf(t)[1].selected_database
       /\ (pc[t] = "set_store" /\ pc'[t] = "set_reply") =>
            /\ \A i \in DbIndexes, k \in Keys :
                 (i # db_index[t] \/ k # Frag(fragments[t], 4)) =>
                   databases'[i][k] = databases[i][k]
            /\ (Len(fragments[t]) = 8) =>
                 databases'[db_index[t]][Frag(fragments[t], 4)] # None
            /\ session_manager' = session_manager
       /\ (pc[t] \in {"SetCommand", "set_sessions", "set_db_index",
                      "set_reply"} /\ pc'[t] # pc[t]) =>
            /\ databases' = databases
            /\ session_manager' = session_manager]_vars

\* a connection that selected database 1 has set a key there, and the key
\* is absent from database 0
C6_Witness ==
  \E t \in Conns :
    /\ pc[t] = "set_reply"
    /\ SessionOf(t) # None
    /\ SessionOf(t)[1].selected_database = 1
    /\ db_index[t] = 1
    /\ databases[1][Key1] # None
    /\ databases[0][Key1] = None

\* C7: FLUSHDB reads its database index from the session registered under
\* its connection's id and, in one step under the keyspace mutex, leaves
\* that database without keys; every other database and every session stay
\* as they were.
C7_FlushDbFrame ==
  [][\A t \in Conns :
       /\ (pc[t] = "flushdb_db_index" /\ pc'[t] = "flushdb_store") =>
            /\ SessionOf(t) # None
            /\ db_index'[t] = SessionOf(t)[1].selected_database
       /\ (pc[t] = "flushdb_store" /\ pc'[t] # pc[t]) =>
            /\ Held(redis_lock, t)
            /\ pc'[t] = "flushdb_reply"
            /\ \A k \in Keys : databases'[db_index[t]][k] = None
            /\ \A i \in DbIndexes \ {db_index[t]} :
                 databases'[i] = databases[i]
            /\ session_manager' = session_manager
       /\ (pc[t] \in {"FlushDbCommand", "flushdb_sessions",
                      "flushdb_db_index", "flushdb_reply"}
           /\ pc'[t] # pc[t]) =>
            /\ databases' = databases
            /\ session_manager' = session_manager]_vars

\* a connection that selected database 1 has flushed it, and database 0
\* still holds its key
C7_Witness ==
  \E t \in Conns :
    /\ pc[t] = "flushdb_reply"
    /\ db_index[t] = 1
    /\ \A k \in Keys : databases[1][k] = None
    /\ databases[0][Key2] # None

\* the deadline the request of a SET asks for: none without an option,
\* now + t for PX t and now + 1000 * s for EX s
DeadlineAsked(f, clock) ==
  IF Len(f) = 8 THEN None
  ELSE LET n == ParseI64(Frag(f, 10)).val
       IN IF ToUppercase(Frag(f, 8)) = Opt_PX
            THEN Some(NumAdd(NumOfNat(clock), n))
            ELSE Some(NumAdd(NumOfNat(clock), Num(n.neg, MagTimes1000(n.mag))))

\* a SET without an option, or with PX or EX in any letter case and an
\* integer argument
WellFormedSet(f) ==
  /\ CommandOf(f) = Name_set
  /\ \/ Len(f) = 8
     \/ /\ Len(f) = 12
        /\ ToUppercase(Frag(f, 8)) \in {Opt_PX, Opt_EX}
        /\ ParseI64(Frag(f, 10)).ok

\* C8: the store step of a SET k v stores v under k with no deadline
\* (cancelling one the key had), of
\* SET k v PX t with deadline now + t and of SET k v EX s with deadline
\* now + 1000 * s, the option matched in any letter case.
C8_SetTtl ==
  [][\A t \in Conns :
       ( /\ pc[t] = "set_store"
         /\ WellFormedSet(fragments[t])
         /\ pc'[t] # pc[t] )
       => /\ pc'[t] = "set_reply"
          /\ databases'[db_index[t]][Frag(fragments[t], 4)] =
               Some(Entry(Frag(fragments[t], 6),
                          DeadlineAsked(fragments[t], now)))]_vars

\* C9: a request that has passed the gate and names no registered command
\* is answered, on a connected stream, with +PONG and nothing else; the
\* keyspace and the sessions stay as they were and the thread goes back to
\* reading.
C9_UnknownIsPong ==
  [][\A t \in Conns :
       ( /\ pc[t] = "dispatch"
         /\ CommandOf(fragments[t]) \notin RegisteredNames
         /\ pc'[t] # pc[t] )
       => /\ databases' = databases
          /\ session_manager' = session_manager
          /\ stream[t] = "open" =>
               /\ written'[t] = << Pong >>
               /\ pc'[t] = "read"
               /\ stream'[t] = "open"]_vars

\* an unknown command has been answered with +PONG on a stream still open
C9_Witness ==
  \E t \in Conns :
    /\ pc[t] = "read"
    /\ stream[t] = "open"
    /\ written[t] = << Pong >>
    /\ CommandOf(fragments[t]) \notin RegisteredNames

\* the twenty names init_command_strategies registers
TableNames ==
  { Name_echo, Name_keys, Name_auth, Name_select, Name_exists, Name_expire,
    Name_dbsize, Name_set, Name_get, Name_del, Name_flushall, Name_flushdb,
    Name_append, Name_rename, Name_move, Name_llen, Name_lpush, Name_rpush,
    Name_incr, Name_decr }

\* C10: dispatch enters a handler exactly when the command equals a
\* registered name character for character, and then the handler bound to
\* that name; any other name, one that differs from a registered name only
\* in letter case included, gets +PONG; the table is the same fixed set of
\* twenty names for every connection.
C10_ExactLookup ==
  [][\A t \in Conns :
       (pc[t] = "dispatch" /\ pc'[t] # pc[t]) =>
         LET command == CommandOf(fragments[t])
         IN /\ RegisteredNames = TableNames
            /\ (command \in TableNames) <=>
                 (pc'[t] \in {e[2] : e \in init_command_strategies})
            /\ (command \in TableNames) =>
                 << command, pc'[t] >> \in init_command_strategies
            /\ (command \notin TableNames) =>
                 pc'[t] = IF stream[t] = "open" THEN "read" ELSE "panicked"]_vars

\* the upper-case spelling of a registered name has been answered with +PONG
C10_Witness ==
  \E t \in Conns :
    /\ pc[t] = "read"
    /\ written[t] = << Pong >>
    /\ CommandOf(fragments[t]) = << "S", "E", "T" >>
    /\ CommandOf(fragments[t]) \notin TableNames

\* the step writes one more reply on the stream of t
WritesReply(t) == Len(written'[t]) = Len(written[t]) + 1

\* C11: a thread that writes a reply holds neither the keyspace mutex nor
\* the session mutex at the step of the write: in the rejection of the
\* gate, in SET and in FLUSHDB every guard has been dropped before.
C11_NoWriteUnderLock ==
  [][\A t \in Conns :
       WritesReply(t) =>
         /\ ~Held(redis_lock, t)
         /\ ~Held(session_lock, t)]_vars

\* the thread is inside SET or FLUSHDB, between taking the keyspace mutex
\* and returning
InKeyspaceCommand(t) ==
  pc[t] \in {"set_sessions", "set_db_index", "set_store", "set_reply",
             "flushdb_sessions", "flushdb_db_index", "flushdb_store",
             "flushdb_reply"}

\* C12: a thread inside SET or FLUSHDB, from before it resolves its
\* database index until after its mutation, holds the keyspace mutex, and
\* no other thread is inside SET or FLUSHDB at the same time.
C12_KeyspaceExclusion ==
  \A t \in Conns :
    InKeyspaceCommand(t) =>
      /\ Held(redis_lock, t)
      /\ \A u \in Conns \ {t} : ~InKeyspaceCommand(u)

\* one connection is about to mutate the keyspace while another has been
\* dispatched to FLUSHDB and waits for the mutex
C12_Witness ==
  \E t \in Conns, u \in Conns :
    /\ pc[t] = "set_store"
    /\ pc[u] = "FlushDbCommand"
    /\ Held(redis_lock, t)

\* the request the thread was handling is done: the thread is back at the
\* head of its loop, holds no mutex, and one reply has been written
Completed(t) ==
  /\ pc[t] = "read"
  /\ ~Held(redis_lock, t)
  /\ ~Held(session_lock, t)
  /\ Len(written[t]) = 1

\* C13: under fair scheduling, and with peers that stay connected, every
\* request handed to dispatch is eventually completed, with its reply
\* written and every mutex released.
C13_RequestCompletes ==
  \A t \in Conns : (pc[t] = "gate") ~> Completed(t)

\* the step is the store step of SET or FLUSHDB of thread t
StoreStep(t) ==
  \/ pc[t] = "set_store" /\ pc'[t] = "set_reply"
  \/ pc[t] = "flushdb_store" /\ pc'[t] = "flushdb_reply"

\* C14: once the server accepts connections, a step that changes the
\* keyspace or the log is the store step of a SET or FLUSHDB whose thread
\* holds the keyspace mutex and has written no reply yet; it appends
\* exactly one record to the log, and that record, applied to the keyspace
\* before the step, gives the keyspace after it.  So the log lists the
\* mutations in the order they were applied, and a step that changes
\* nothing in the keyspace by a command that stores nothing adds no record.
C14_LogFollowsStore ==
  [][(main_pc = "accept" /\ (databases' # databases \/ aof' # aof)) =>
       \E t \in Conns :
         /\ StoreStep(t)
         /\ Held(redis_lock, t)
         /\ redis_lock' = redis_lock
         /\ written[t] = << >>
         /\ written'[t] = << >>
         /\ Len(aof') = Len(aof) + 1
         /\ SubSeq(aof', 1, Len(aof)) = aof
         /\ databases' = ReplayRecord(databases, aof'[Len(aof')])]_vars

\* two connections have mutated the keyspace one after the other and the
\* log holds their two records in that order
C14_Witness ==
  \E t \in Conns, u \in Conns :
    /\ t # u
    /\ replayed = 0
    /\ pc[u] = "read"
    /\ written[u] = << Ok >>
    /\ CommandOf(fragments[u]) = Name_set
    /\ pc[t] = "flushdb_reply"
    /\ Len(aof) = 2
    /\ aof[1].op = "set"
    /\ aof[2].op = "flushdb"

\* C15: a thread takes its next request only at the head of its loop, when
\* nothing of the request before it is left to do; while it handles a
\* request that request is not replaced; and it writes replies only while
\* it handles a request, so the replies of a connection are written in the
\* order of its requests.
C15_RequestOrder ==
  [][\A t \in Conns :
       /\ (pc'[t] = "gate" /\ pc[t] # "gate") =>
            /\ pc[t] = "read"
            /\ ~Held(redis_lock, t)
            /\ ~Held(session_lock, t)
            /\ written'[t] = << >>
       /\ Handling(t) =>
            /\ fragments'[t] = fragments[t]
            /\ pc'[t] # "gate" \/ pc[t] = "gate"
       /\ WritesReply(t) =>
            /\ Handling(t)
            /\ pc'[t] = "read"]_vars

\* one connection has had its first request answered and its second one
\* answered after it
C15_Witness ==
  \E t \in Conns :
    /\ \A u \in Conns \ {t} : pc[u] = "idle"
    /\ nreqs = 2
    /\ pc[t] = "read"
    /\ Len(written[t]) = 1

\* C16: when SET writes +OK, the key of the request holds the value of the
\* request in the database the command resolved for its session.
C16_OkMeansStored ==
  [][\A t \in Conns :
       (pc[t] = "set_reply" /\ WritesReply(t)) =>
         /\ written'[t] = << Ok >>
         /\ databases[db_index[t]][Frag(fragments[t], 4)] # None
         /\ databases[db_index[t]][Frag(fragments[t], 4)][1].value =
              Frag(fragments[t], 6)]_vars

\* C17: whatever has failed on other connections, a thread dispatched to
\* SET or FLUSHDB gets the keyspace mutex when it takes its step, and one
\* that has reached its reply on a connected stream writes +OK and goes
\* back to reading.
C17_FailureIsolated ==
  [][\A t \in Conns :
       /\ (pc[t] = "SetCommand" /\ pc'[t] # pc[t]) =>
            pc'[t] = "set_sessions" /\ Held(redis_lock, t)'
       /\ (pc[t] = "FlushDbCommand" /\ pc'[t] # pc[t]) =>
            pc'[t] = "flushdb_sessions" /\ Held(redis_lock, t)'
       /\ (pc[t] \in {"set_reply", "flushdb_reply"} /\ stream[t] = "open"
           /\ pc'[t] # pc[t]) =>
            pc'[t] = "read" /\ written'[t] = << Ok >>]_vars

\* the thread stands at a lock() of the keyspace mutex, or of the session
\* mutex, and another thread holds that mutex
WaitsForRedis(t) ==
  /\ pc[t] \in {"SetCommand", "FlushDbCommand"}
  /\ ~Free(redis_lock)

WaitsForSessions(t) ==
  /\ \/ pc[t] \in {"create", "gate", "set_sessions", "flushdb_sessions",
                   "AuthCommand", "SelectCommand"}
     \/ pc[t] = "read" /\ stream[t] = "reset"
  /\ ~Free(session_lock)

Waiting(t) == WaitsForRedis(t) \/ WaitsForSessions(t)

\* the holder of the mutex, main or the thread of a connection, stands
\* inside its critical section and waits for nothing
HolderRuns(lock) ==
  \/ lock.holder = Some(MainThread) /\ main_pc = "load_aof"
  \/ \E h \in Conns :
       /\ lock.holder = Some(h)
       /\ pc[h] \notin {"idle", "read", "done", "panicked"}
       /\ ~Waiting(h)

\* C18: a thread takes the keyspace mutex only while it does not hold the
\* session mutex, so that when it holds both it took the keyspace mutex
\* first; it never holds the session mutex at a point where it waits for
\* the keyspace mutex; and whenever a thread waits, the holder of a mutex
\* can take a step: no state is a deadlock.
C18_LockOrder ==
  /\ \A t \in Conns :
       /\ pc[t] \in {"SetCommand", "FlushDbCommand"} =>
            ~Held(session_lock, t)
       /\ (Held(session_lock, t) /\ Held(redis_lock, t)) =>
            pc[t] \in {"set_db_index", "flushdb_db_index"}
       /\ WaitsForRedis(t) =>
            HolderRuns(redis_lock) \/ HolderRuns(session_lock)
       /\ WaitsForSessions(t) => HolderRuns(session_lock)

\* a thread inside SET holds the keyspace mutex and waits for the session
\* mutex, which another thread holds inside the gate
C18_Witness ==
  \E t \in Conns, u \in Conns :
    /\ pc[t] = "set_sessions"
    /\ Held(redis_lock, t)
    /\ pc[u] = "gating"
    /\ Held(session_lock, u)
    /\ WaitsForSessions(t)

\* C19: while the peer of a connection is connected and its thread stands
\* in the gate or in a handler at the point where it looks its session up,
\* the registry holds a session under the connection's id.
C19_SessionPresent ==
  \A t \in Conns :
    ( /\ stream[t] = "open"
      /\ pc[t] \in {"gating", "set_db_index", "flushdb_db_index",
                    "auth_session", "select_session"} )
    => SessionOf(t) # None

RECURSIVE ReplayAll(_)
\* the keyspace the whole log gives, replayed from the empty keyspace
ReplayAll(log) ==
  IF Len(log) = 0 THEN EmptyKeyspace
  ELSE ReplayRecord(ReplayAll(SubSeq(log, 1, Len(log) - 1)), log[Len(log)])

\* C20: until main has replayed the whole log and dropped the keyspace
\* mutex no connection exists and no request has been read; the replay
\* runs with the mutex held; and when the first request is read the
\* keyspace is the one the whole log gives.
C20_ReplayBeforeServing ==
  /\ main_pc # "accept" =>
       /\ \A t \in Conns : pc[t] = "idle"
       /\ nreqs = 0
  /\ main_pc = "load_aof" => Held(redis_lock, MainThread)
  /\ (main_pc = "accept" /\ nreqs = 0) =>
       /\ replayed = Len(aof)
       /\ databases = ReplayAll(aof)

\* a connection handles its request on the keyspace that the replay of a
\* stored log has filled
C20_Witness ==
  \E t \in Conns :
    /\ pc[t] = "dispatch"
    /\ main_pc = "accept"
    /\ replayed = NumDatabases
    /\ \A i \in DbIndexes : databases[i][Key2] = Some(Entry(Val2, None))

====
